---- MODULE Spec2Model ----
(***************************************************************************)
(* A model of the PyDataBridge loaders:                                    *)
(*   src/gerenciador_banco_dados.py  GerenciadorBancoDados                 *)
(*   src/DataBaseEngine.py           DataBaseEngine (legacy revision)      *)
(*   src/DataBaseEngine_script.py    batch_insert   (legacy script)        *)
(*                                                                         *)
(* The database is modelled at the level of the DB-API calls the code      *)
(* makes: execute, executemany, commit.  dw is the committed content of    *)
(* the bound table, tx the content seen inside the open transaction of     *)
(* the instance's connection, log the calls made by the operation that     *)
(* ran last.  The column the loaders call pk is the table's primary key    *)
(* (docstrings of select_hash, carga_dimensao, carga_scd_fato), so a plain *)
(* INSERT of an existing pk value is rejected by the engine and an upsert  *)
(* of an existing pk value updates the row in place.  One executemany is   *)
(* applied as a whole or not at all.                                       *)
(***************************************************************************)
EXTENDS Integers, Sequences, FiniteSets, TLC

VARIABLES bd_type,  \* self.bd_type: 'mysql' or 'postgres'
          dw,       \* committed rows of the bound table
          tx,       \* rows as seen by the open transaction of self.conn
          op,       \* the operation that ran last, with its arguments
          pre,      \* dw and tx when that operation was called
          log,      \* DB-API calls made by that operation, in order
          mid,      \* committed content after each commit of that operation
          err,      \* exception it raised to its caller, NoErr if it returned
          prev,     \* on a re-run: outcome and starting point of the run it repeats
          inst,     \* the instance: its class, bound table, column list, cursor
          cat,      \* the database's catalog: columns and primary key by table
          io,       \* arguments and return value of the operation that ran last
          net       \* the instance's connection and SSH tunnel

vars == <<bd_type, dw, tx, op, pre, log, mid, err, prev, inst, cat, io, net>>

----------------------------------------------------------------------------
(* Bounds of the model *)

NumKeys == 2    \* natural keys
NumVers == 2    \* contents (versions) per natural key
ExtraRows == 1  \* rows of the longest batch of SpecOrdem beyond SkipRows
MaxData == 2    \* distinct movement dates of fact loads
MaxRerun == 1   \* times a caller repeats a call with the same arguments
NumDim == 2     \* content hashes of dimension entries
MaxLoteDim == 2 \* rows of a batch of dimension candidates
MaxDia == 3     \* movement dates of dimension loads, half a threshold apart
MaxExtra == 1   \* rows of a record set beyond a whole number of chunks
MaxFalha == 3
MaxLista == 2   \* key values in a select_hash called on its own
MaxLinhas == 3  \* rows of a frame handed to surrogated_hash
MaxDigito == 1  \* cell values are d and dd, for a digit d up to this one
NumCols == 2    \* column names a table is made of
MaxPorta == 2   \* local bind ports a tunnel may be given
NumTab == 2     \* table names of the database   \* last chunk of a direct batch write that is made to fail

(* Program constants *)

ChunkCap == 1000      \* gerenciador_banco_dados.py:385  min(len(df), 1000)
SkipRows == 4         \* gerenciador_banco_dados.py:438  df.iloc[4:]
LimiteDias == 30      \* gerenciador_banco_dados.py:410  diferenca_dias >= 30
ScriptChunk == 2000   \* DataBaseEngine_script.py:74    chunksize = 2000
EngineDivisor == 100  \* DataBaseEngine.py:217          int(len(df)/100)
CreateConnParams == 1 \* DataBaseEngine.py:157          def __create_conn(self)
CreateConnArgs == 2   \* DataBaseEngine.py:209          self.__create_conn(self)

Nulo == 0 - 1
NoOffset == Nulo      \* an exception that carries no chunk offset

\* an exception as its raiser built it: its type, and the chunk offset it
\* carries; every exception this code lets out is the driver's or the
\* interpreter's own, which carries none
Raise(exc) == [exc |-> exc, offset |-> NoOffset]

NoErr == Raise("none")
Aberto == Nulo        \* NULL dt_fim_movimento: the period is open

Min(a, b) == IF a < b THEN a ELSE b

Keys == 1..NumKeys
Vers == 1..NumVers
Datas == 1..MaxData

----------------------------------------------------------------------------
(* Candidate rows.  The content hash is computed by the caller before the  *)
(* load (surrogated_hash); here it is an injective code of the content.    *)

ScdHash(k, v) == (k - 1) * NumVers + v

Candidato(k, v, d) ==
    [nk |-> k, scdhash |-> ScdHash(k, v), DataMovimento |-> d,
     ultimo_registro |-> TRUE, dt_fim_movimento |-> Aberto]

\* df.values -> tuple for the catalog columns, by position
LinhaFato(c) ==
    [pk |-> c.scdhash, nk |-> c.nk,
     ultimo_registro |-> c.ultimo_registro,
     dt_fim_movimento |-> c.dt_fim_movimento]

RECURSIVE SeqsUpTo(_, _)
SeqsUpTo(S, n) ==
    IF n = 0 THEN {<<>>}
    ELSE LET shorter == SeqsUpTo(S, n - 1)
         IN  shorter \cup {Append(s, x) : s \in shorter, x \in S}

Range(s) == {s[i] : i \in 1..Len(s)}

RECURSIVE SortByPk(_)
SortByPk(S) ==      \* rows of a result set, in primary-key order
    IF S = {} THEN <<>>
    ELSE LET r == CHOOSE x \in S : \A y \in S : x.pk <= y.pk
         IN  <<r>> \o SortByPk(S \ {r})

Pks(rows) == {rows[i].pk : i \in 1..Len(rows)}

----------------------------------------------------------------------------
(* The DB-API as the code uses it *)

\* one call on the cursor or the connection: for an executemany, start is the
\* offset of its chunk in the record set, keys the pk of each of its tuples,
\* ok whether it returned, pbar the progress bar's count after it
Entry(c, s, i, keys, ok, p) ==
    [call |-> c, sql |-> s, start |-> i, keys |-> keys, ok |-> ok, pbar |-> p]

SetSearchPath == Entry("execute", "SET search_path", 0, <<>>, TRUE, 0)
CommitEntry == Entry("commit", "", 0, <<>>, TRUE, 0)

KeysOf(tuples) == [j \in 1..Len(tuples) |-> tuples[j].pk]

\* cur.executemany(insert_sql, tuples): a plain INSERT; a tuple whose pk is
\* already in the table, or twice among the tuples, violates the primary key
InsertOk(t, tuples) ==
    /\ Pks(tuples) \cap {r.pk : r \in t} = {}
    /\ Cardinality(Pks(tuples)) = Len(tuples)

\* cur.executemany(upsert_sql, tuples): ON DUPLICATE KEY UPDATE / ON CONFLICT
\* DO UPDATE, applied tuple by tuple: the last tuple of a pk stands
UpsertRows(t, tuples) ==
    LET pks == Pks(tuples)
        last == IF Cardinality(pks) = Len(tuples)
                THEN Range(tuples)
                ELSE {tuples[j] : j \in {i \in 1..Len(tuples) :
                          \A k \in (i + 1)..Len(tuples) : tuples[k].pk # tuples[i].pk}}
    IN  {r \in t : r.pk \notin pks} \cup last

executemany(t, sql, tuples) ==
    IF sql = "insert"
    THEN IF InsertOk(t, tuples)
         THEN [ok |-> TRUE, tx |-> t \cup Range(tuples), exc |-> "none"]
         ELSE [ok |-> FALSE, tx |-> t, exc |-> "IntegrityError"]
    ELSE [ok |-> TRUE, tx |-> UpsertRows(t, tuples), exc |-> "none"]

\* df.iloc[i:i + chunksize]
Tuples(df, i, chunksize) == SubSeq(df, i + 1, Min(i + chunksize, Len(df)))

\* for i in range(0, len(df), chunksize): executemany; pbar.update
\* st is the state of the call so far; falha names the chunk (counted from 1)
\* whose executemany raises for a reason outside the content of the table
\* (connection lost, tuples that do not fit the statement), and what it raises
RECURSIVE ChunkLoop(_, _, _, _, _, _)
ChunkLoop(st, df, sql, chunksize, i, falha) ==
    IF i >= Len(df) THEN st
    ELSE LET tuples == Tuples(df, i, chunksize)
             res == executemany(st.tx, sql, tuples)
             lost == (falha.chunk = i \div chunksize + 1)
         IN  IF lost \/ ~res.ok
             THEN [st EXCEPT
                     !.log = Append(@, Entry("executemany", sql, i, KeysOf(tuples),
                                             FALSE, st.pbar)),
                     !.err = Raise(IF lost THEN falha.exc ELSE res.exc)]
             ELSE ChunkLoop(
                     [st EXCEPT
                        !.tx = res.tx,
                        !.pbar = @ + Len(tuples),
                        !.log = Append(@, Entry("executemany", sql, i, KeysOf(tuples),
                                                TRUE, st.pbar + Len(tuples)))],
                     df, sql, chunksize, i + chunksize, falha)

\* the body of GerenciadorBancoDados.batch_insert
batch_insert_body(st, df, sql, falha) ==
    LET st0 == IF bd_type = "postgres"
               THEN [st EXCEPT !.log = Append(@, SetSearchPath), !.pbar = 0]
               ELSE [st EXCEPT !.pbar = 0]
        chunksize == Min(Len(df), ChunkCap)
    IN  IF chunksize = 0
        THEN [st0 EXCEPT !.err = Raise("ValueError")]    \* range(0, 0, 0)
        ELSE ChunkLoop(st0, df, sql, chunksize, 0, falha)

\* self.conn.commit()
commit(st) ==
    [st EXCEPT !.dw = st.tx, !.log = Append(@, CommitEntry), !.mid = Append(@, st.tx)]

\* a batch_insert that commits after its last chunk, as the legacy revisions do
batch_insert_commits(st, df, sql, falha) ==
    LET w == batch_insert_body(st, df, sql, falha)
    IN  IF w.err # NoErr THEN w ELSE commit(w)

\* GerenciadorBancoDados.batch_insert(df, sql) on the instance's cursor
batch_insert(st, df, sql, falha) == batch_insert_body(st, df, sql, falha)

NoFalha == [chunk |-> 0, exc |-> "none"]
Lost(k) == [chunk |-> k, exc |-> "OperationalError"]
Falhas(n) == {NoFalha} \cup {Lost(k) : k \in 1..n}

Start(d, t) == [dw |-> d, tx |-> t, log |-> <<>>, mid |-> <<>>, err |-> NoErr, pbar |-> 0]

\* SELECT ... WHERE a.pk IN (values_list) [AND ultimo_registro = 'True']
select_hash(t, values_list, ultimo_registro) ==
    {r \in t : r.pk \in values_list /\ (ultimo_registro => r.ultimo_registro)}

----------------------------------------------------------------------------
(* GerenciadorBancoDados.carga_scd_fato *)

Hashes(df) == {df[i].scdhash : i \in 1..Len(df)}

\* right_only of merge(df.iloc[4:], df_dw, how='right'): fetched rows whose
\* pk is the hash of no candidate after the first four
df_desatualizados(df, df_dw) ==
    LET resto == {df[i].scdhash : i \in (SkipRows + 1)..Len(df)}
    IN  {r \in df_dw : r.pk \notin resto}

\* the rows as written back: flagged not current, closed at the date of the
\* first candidate
Fechados(df, df_dw) ==
    {[r EXCEPT !.ultimo_registro = FALSE,
               !.dt_fim_movimento = df[1].DataMovimento] :
        r \in df_desatualizados(df, df_dw)}

\* left_only of merge(df, df_dw, how='left'): candidates whose hash is the
\* pk of no fetched row
IsNovo(c, pks) == c.scdhash \notin pks

df_novos_registros(df, df_dw) ==
    LET pks == {r.pk : r \in df_dw}
        Test(c) == IsNovo(c, pks)
    IN  SelectSeq(df, Test)

\* what the insert pass hands to batch_insert (line 459)
InsertArg(df, df_dw) == df

ToFato(df) == [i \in 1..Len(df) |-> LinhaFato(df[i])]

\* the pk values carga_scd_fato closes, and those it inserts, for a batch
ClosedSet(t, df) ==
    {r.pk : r \in df_desatualizados(df, select_hash(t, Hashes(df), TRUE))}

InsertedSet(t, df) ==
    LET df_dw == select_hash(t, Hashes(df), TRUE)
    IN  IF Len(df_novos_registros(df, df_dw)) > 0
        THEN Pks(ToFato(InsertArg(df, df_dw)))
        ELSE {}

scd_insert_pass(st, df, df_dw, f2) ==
    IF Len(df_novos_registros(df, df_dw)) > 0
    THEN LET w == batch_insert(st, ToFato(InsertArg(df, df_dw)), "insert", f2)
         IN  IF w.err # NoErr THEN w ELSE commit(w)
    ELSE st

scd_fato(d, t, df, f1, f2) ==
    IF Len(df) = 0
    THEN [Start(d, t) EXCEPT !.err = Raise("IndexError")]   \* select_hash: format(*[])
    ELSE LET df_dw == select_hash(t, Hashes(df), TRUE)
             fech == Fechados(df, df_dw)
         IN  IF fech # {}
             THEN LET w == batch_insert(Start(d, t), SortByPk(fech), "upsert", f1)
                  IN  IF w.err # NoErr THEN w
                      ELSE scd_insert_pass(commit(w), df, df_dw, f2)
             ELSE scd_insert_pass(Start(d, t), df, df_dw, f2)

----------------------------------------------------------------------------
(* Calls and their callers *)

Idle == [name |-> "idle", df |-> <<>>, arg |-> "", run |-> 0]
NoPrev == [err |-> Raise("-"), log |-> <<>>, dw |-> {}, tx |-> {}]

\* a table of the catalog: its columns in ordinal position (none when the
\* table does not exist or the user may not see it) and its primary-key
\* column (Nulo when it has none)
Tabela(cols, pk) == [cols |-> cols, pk |-> pk]

\* a statement text, by its parts: the table, the INSERT column list, the
\* number of %s placeholders, the ON CONFLICT target (Nulo when the text
\* has none) and the columns of the update clause
Stmt(kind, table, cols, nvalues, conflict, update) ==
    [kind |-> kind, table |-> table, cols |-> cols, nvalues |-> nvalues,
     conflict |-> conflict, update |-> update]

NoStmt == Stmt("none", Nulo, <<>>, Nulo, Nulo, <<>>)

\* what an operation was called with and what it returned
Io(table, excluded, hashes, stmt) ==
    [table |-> table, excluded |-> excluded, hashes |-> hashes, stmt |-> stmt,
     rows |-> {}, columns |-> <<>>, digests |-> <<>>]

NoIo == Io(Nulo, {}, <<>>, NoStmt)

\* an instance: col_names is meaningful when tem_cols (it is None before),
\* cur tells whether self.cur is a cursor
Inst(classe, table, col_names, tem_cols, cur, module) ==
    [classe |-> classe, table |-> table, col_names |-> col_names,
     tem_cols |-> tem_cols, cur |-> cur, module |-> module]

NoInst == Inst("none", Nulo, <<>>, FALSE, FALSE, "-")

\* the loaders run on a connected instance bound to a table of columns
\* 1..NumCols whose first column is the primary key
ColsPadrao == [i \in 1..NumCols |-> i]
CatPadrao == [t \in 1..NumTab |-> Tabela(ColsPadrao, 1)]
\* self.module of lines 36-41 (and of DataBaseEngine lines 83-88)
ModuleOf(tag) == IF tag = "postgres" THEN "psycopg2" ELSE "pymysql"

InstPadrao(tag) ==
    Inst("GerenciadorBancoDados", 1, ColsPadrao, TRUE, TRUE, ModuleOf(tag))

\* self.port of lines 36-41
PortaDe(tag) == IF tag = "postgres" THEN 5432 ELSE 3306

\* the connection side of an instance: ssh tells whether self.__ssh_server
\* is a forwarder, started whether that tunnel is up and bind its local bind
\* port; dupla whether start() was ever called on it while it was up; port
\* is self.port and config is __db_config["port"]; conn tells whether
\* self.conn is a connection and open whether that connection is open; peer
\* is the port the last connection was opened against and tunel the local
\* bind port of the tunnel at that moment (Nulo when no tunnel was up)
NoNet ==
    [ssh |-> FALSE, started |-> FALSE, dupla |-> FALSE, bind |-> Nulo,
     port |-> Nulo, config |-> Nulo, conn |-> FALSE, open |-> FALSE,
     peer |-> Nulo, tunel |-> Nulo]

\* the loaders run on an instance built without a tunnel and connected
NetPadrao(tag) ==
    [NoNet EXCEPT !.port = PortaDe(tag), !.config = PortaDe(tag),
                  !.conn = TRUE, !.open = TRUE, !.peer = PortaDe(tag)]

TypeOK ==
    /\ bd_type \in {"mysql", "postgres", "-"}
    /\ op.name \in {"idle", "carga_scd_fato", "carga_dimensao", "batch_insert",
                    "script.batch_insert", "DataBaseEngine.batch_insert",
                    "commit", "GerenciadorBancoDados", "DataBaseEngine",
                    "connect", "table", "insert_sql", "upsert_sql",
                    "get_primary_key", "select_hash", "surrogated_hash",
                    "conection_test", "dispose"}
    /\ err.exc \in {"none", "IndexError", "ValueError", "TypeError",
                    "IntegrityError", "OperationalError", "AttributeError",
                    "Exception", "BaseSSHTunnelForwarderError"}
    /\ inst.classe \in {"none", "GerenciadorBancoDados", "DataBaseEngine"}

Init ==
    /\ bd_type \in {"mysql", "postgres"}
    /\ dw = {}
    /\ tx = {}
    /\ op = Idle
    /\ pre = [dw |-> {}, tx |-> {}]
    /\ log = <<>>
    /\ mid = <<>>
    /\ err = NoErr
    /\ prev = NoPrev
    /\ inst = InstPadrao(bd_type)
    /\ cat = CatPadrao
    /\ io = NoIo
    /\ net = NetPadrao(bd_type)

\* the operation has run to its return or to its raise, with outcome r
Finish(name, df, arg, run, r) ==
    /\ op' = [name |-> name, df |-> df, arg |-> arg, run |-> run]
    /\ pre' = [dw |-> dw, tx |-> tx]
    /\ dw' = r.dw
    /\ tx' = r.tx
    /\ log' = r.log
    /\ mid' = r.mid
    /\ err' = r.err
    /\ prev' = IF run = 0 THEN NoPrev
               ELSE [err |-> err, log |-> log, dw |-> pre.dw, tx |-> pre.tx]
    /\ UNCHANGED <<bd_type, inst, cat, io, net>>

\* the caller takes the result (or the exception) and goes on
Return ==
    /\ op.name # "idle"
    /\ op' = Idle
    /\ pre' = [dw |-> dw, tx |-> tx]
    /\ log' = <<>>
    /\ mid' = <<>>
    /\ err' = NoErr
    /\ prev' = NoPrev
    /\ io' = NoIo
    /\ UNCHANGED <<bd_type, dw, tx, inst, cat, net>>

LoteDe(s, d) == [i \in 1..Len(s) |-> Candidato(s[i][1], s[i][2], d)]

UmaPorChave(s) == \A i, j \in 1..Len(s) : s[i][1] = s[j][1] => i = j

\* candidate batches of one extraction: one row per natural key, every row
\* with the movement date of the extraction
LotesDe(K, V, D) ==
    {LoteDe(s, d) : s \in {x \in SeqsUpTo(K \X V, Cardinality(K)) : UmaPorChave(x)},
                    d \in D}

Lotes == LotesDe(Keys, Vers, Datas)

carga_scd_fato(df, run) ==
    \E f1, f2 \in Falhas(1) :
        Finish("carga_scd_fato", df, "", run, scd_fato(dw, tx, df, f1, f2))

FatoCall == op.name = "idle" /\ \E df \in Lotes : carga_scd_fato(df, 0)

FatoRerun ==
    /\ op.name = "carga_scd_fato"
    /\ op.run < MaxRerun
    /\ carga_scd_fato(op.df, op.run + 1)

Next == FatoCall \/ FatoRerun \/ Return

Spec == Init /\ [][Next]_vars

\* batches longer than the four rows line 438 skips, one content per key
LotesOrdem == LotesDe(1..(SkipRows + ExtraRows), {1}, {1})

OrdemCall == op.name = "idle" /\ \E df \in LotesOrdem : carga_scd_fato(df, 0)

NextOrdem == OrdemCall \/ Return

SpecOrdem == Init /\ [][NextOrdem]_vars

\* batches that take more than one chunk of the insert pass: one candidate
\* per natural key 1..n
LotesGrandes ==
    {LoteDe([i \in 1..(ChunkCap + e) |-> <<i, 1>>], d) : e \in 1..ExtraRows, d \in Datas}

\* a load of such a batch whose driver may fail in either chunk
GrandeCall ==
    /\ op.name = "idle"
    /\ \E df \in LotesGrandes, f2 \in Falhas(2) :
          Finish("carga_scd_fato", df, "", 0, scd_fato(dw, tx, df, NoFalha, f2))

NextGrande == GrandeCall \/ FatoRerun \/ Return

SpecGrande == Init /\ [][NextGrande]_vars

----------------------------------------------------------------------------
(* GerenciadorBancoDados.carga_dimensao                                    *)
(*                                                                         *)
(* A dimension row has its content hash (the primary key), its movement    *)
(* date, and the attribute that comes last in the catalog.  col_dimensao   *)
(* is "todas" when the caller lists every catalog column and "sem_ultima"  *)
(* when it lists all but the last one.                                     *)

Dias == {i * (LimiteDias \div 2) : i \in 1..MaxDia}

\* a candidate: its hash, its movement date, its value of the last attribute
CandidatoDim(h, d) == [dhash |-> h, DataMovimento |-> d, ultima |-> 0]

\* tuple of a candidate for the catalog columns, by position
LinhaDim(c) ==
    [pk |-> c.dhash, dt_movimento |-> c.DataMovimento, ultima |-> c.ultima]

ToDim(df) == [i \in 1..Len(df) |-> LinhaDim(df[i])]

DHashes(df) == {df[i].dhash : i \in 1..Len(df)}

\* pd.to_datetime(df_dimensao['Data Movimento'].iloc[0])
data_atual(df) == df[1].DataMovimento

diferenca_dias(df, r) == data_atual(df) - r.dt_movimento

IsAntigo(df, r) == diferenca_dias(df, r) >= LimiteDias

df_registros_antigos(df, df_dw) == {r \in df_dw : IsAntigo(df, r)}

\* the tuples of df_registros_antigos as the upsert statement receives them:
\* the fetched values of col_dimensao followed by diferenca_dias, which lands
\* in the last catalog column
Regravados(df, df_dw) ==
    {[r EXCEPT !.ultima = diferenca_dias(df, r)] : r \in df_registros_antigos(df, df_dw)}

\* upsert_sql() has one placeholder per catalog column; a tuple of
\* len(col_dimensao) + 1 values fits it only when col_dimensao leaves one
\* catalog column out
AridadeFalha(cols, f) ==
    IF cols = "todas" THEN [chunk |-> 1, exc |-> "TypeError"] ELSE f

\* left_only of merge(df_dimensao, df_dimensao_dw, how='left')
IsNovoDim(c, df_dw) == \A r \in df_dw : r.pk # c.dhash

\* the candidates handed to the insert pass, were the anti-join left out
df_novos_dim_todos(df, df_dw) == df

df_novos_dim(df, df_dw) ==
    LET Test(c) == IsNovoDim(c, df_dw) IN SelectSeq(df, Test)

\* an insert pass that commits whether or not its batch write raised
dim_insert_pass_sempre(st, df, df_dw, f2) ==
    IF Len(df_novos_dim(df, df_dw)) > 0
    THEN commit(batch_insert(st, ToDim(df_novos_dim(df, df_dw)), "insert", f2))
    ELSE st

dim_insert_pass(st, df, df_dw, f2) ==
    IF Len(df_novos_dim(df, df_dw)) > 0
    THEN LET w == batch_insert(st, ToDim(df_novos_dim(df, df_dw)), "insert", f2)
         IN  IF w.err # NoErr THEN w ELSE commit(w)
    ELSE st

dimensao(d, t, df, cols, f1, f2) ==
    IF Len(df) = 0
    THEN [Start(d, t) EXCEPT !.err = Raise("IndexError")]   \* select_hash: format(*[])
    ELSE LET df_dw == select_hash(t, DHashes(df), FALSE)
             antigos == Regravados(df, df_dw)
         IN  IF antigos # {}
             THEN LET w == batch_insert(Start(d, t), SortByPk(antigos), "upsert",
                                        AridadeFalha(cols, f1))
                  IN  IF w.err # NoErr THEN w
                      ELSE dim_insert_pass(commit(w), df, df_dw, f2)
             ELSE dim_insert_pass(Start(d, t), df, df_dw, f2)

LoteDim(s, d) == [i \in 1..Len(s) |-> CandidatoDim(s[i], d)]

LotesDim == {LoteDim(s, d) : s \in SeqsUpTo(1..NumDim, MaxLoteDim), d \in Dias}

carga_dimensao(df, cols, run) ==
    \E f1, f2 \in Falhas(1) :
        Finish("carga_dimensao", df, cols, run, dimensao(dw, tx, df, cols, f1, f2))

DimCall ==
    /\ op.name = "idle"
    /\ \E df \in LotesDim, cols \in {"todas", "sem_ultima"} : carga_dimensao(df, cols, 0)

DimRerun ==
    /\ op.name = "carga_dimensao"
    /\ op.run < MaxRerun
    /\ carga_dimensao(op.df, op.arg, op.run + 1)

NextDim == DimCall \/ DimRerun \/ Return

SpecDim == Init /\ [][NextDim]_vars

----------------------------------------------------------------------------
(* The Batch Writer called on its own, and its two legacy revisions *)

Max(a, b) == IF a > b THEN a ELSE b

Connect == Entry("connect", "", 0, <<>>, TRUE, 0)
Close == Entry("close", "", 0, <<>>, TRUE, 0)
Introspect ==
    Entry("execute", IF bd_type = "mysql" THEN "DESCRIBE" ELSE "SELECT column_name",
          0, <<>>, TRUE, 0)

\* the rest of a legacy batch_insert once its connection is open: the
\* statements run on that connection, which starts from the committed rows
legacy_body(d, df, chunksize, falha, closes) ==
    LET st0 == [Start(d, d) EXCEPT !.log = <<Connect>>]
        st1 == IF bd_type = "postgres"
               THEN [st0 EXCEPT !.log = Append(@, SetSearchPath)] ELSE st0
        st2 == [st1 EXCEPT !.log = Append(@, Introspect)]
        w == ChunkLoop(st2, df, "insert", chunksize, 0, falha)
    IN  IF w.err # NoErr THEN [w EXCEPT !.tx = d]   \* the connection is dropped
        ELSE LET c == commit(w)
             IN  IF closes THEN [c EXCEPT !.log = @ \o <<Close, Close>>] ELSE c

\* DataBaseEngine_script.batch_insert(df, module, bd_type, db_config, table)
script_batch_insert(d, df, falha) == legacy_body(d, df, ScriptChunk, falha, TRUE)

\* DataBaseEngine.batch_insert: chunksize of lines 216-219
engine_chunksize(df, batch) ==
    IF batch = 0 THEN Max(Len(df) \div EngineDivisor, 1) ELSE batch

\* DataBaseEngine.batch_insert(df, batch): line 209 calls the bound method
\* __create_conn with one argument more than it takes
engine_batch_insert(d, df, batch, falha) ==
    IF CreateConnArgs # CreateConnParams
    THEN [Start(d, d) EXCEPT !.err = Raise("TypeError")]
    ELSE legacy_body(d, df, engine_chunksize(df, batch), falha, FALSE)

\* record sets by size: rows 1..n
Tamanhos == {c + e : c \in {0, ChunkCap, ScriptChunk}, e \in 0..MaxExtra}

DfDe(n) == [i \in 1..n |-> [pk |-> i]]

NumChunks(n, chunksize) == (n + chunksize - 1) \div chunksize

LoteFalhas(n, chunksize) == Falhas(Min(NumChunks(n, chunksize), MaxFalha))

LoteCall ==
    /\ op.name = "idle"
    /\ \E n \in Tamanhos, sql \in {"insert", "upsert"} :
         \E falha \in LoteFalhas(n, Max(Min(n, ChunkCap), 1)) :
            Finish("batch_insert", DfDe(n), sql, 0,
                   batch_insert(Start(dw, tx), DfDe(n), sql, falha))

\* the legacy revisions are programs of their own; they are run while the
\* instance's connection holds no uncommitted work
ScriptCall ==
    /\ op.name = "idle"
    /\ tx = dw
    /\ \E n \in Tamanhos :
         \E falha \in LoteFalhas(n, ScriptChunk) :
            Finish("script.batch_insert", DfDe(n), "insert", 0,
                   script_batch_insert(dw, DfDe(n), falha))

EngineCall ==
    /\ op.name = "idle"
    /\ tx = dw
    /\ \E n \in Tamanhos, batch \in {0, ChunkCap} :
         \E falha \in LoteFalhas(n, engine_chunksize(DfDe(n), batch)) :
            Finish("DataBaseEngine.batch_insert", DfDe(n), "insert", 0,
                   engine_batch_insert(dw, DfDe(n), batch, falha))

\* the caller of batch_insert commits, as the loaders do
CallerCommit ==
    /\ op.name = "idle"
    /\ tx # dw
    /\ Finish("commit", <<>>, "", 0, commit(Start(dw, tx)))

NextLote == LoteCall \/ ScriptCall \/ EngineCall \/ CallerCommit \/ Return

SpecLote == Init /\ [][NextLote]_vars

----------------------------------------------------------------------------
(* Construction, binding and the statement builder *)

Tags == {"mysql", "postgres", "oracle"}
Ambientes == {"dev", "none"}

\* column lists of a table: no column twice
SemRepetir(c) == \A i, j \in 1..Len(c) : c[i] = c[j] => i = j
Colunas == {c \in SeqsUpTo(1..NumCols, NumCols) : SemRepetir(c)}
Tabelas == UNION {{Tabela(c, k) : k \in Range(c) \cup {Nulo}} : c \in Colunas}
Catalogos == [1..NumTab -> Tabelas]

\* before any instance is constructed
InitBind ==
    /\ bd_type = "-"
    /\ dw = {}
    /\ tx = {}
    /\ op = Idle
    /\ pre = [dw |-> {}, tx |-> {}]
    /\ log = <<>>
    /\ mid = <<>>
    /\ err = NoErr
    /\ prev = NoPrev
    /\ inst = NoInst
    /\ cat \in Catalogos
    /\ io = NoIo
    /\ net = NoNet

\* an operation on the instance has ended with outcome r; arg is the dialect
\* tag a constructor was called with
FinishInst(name, arg, table, excluded, r) ==
    /\ op' = [name |-> name, df |-> <<>>, arg |-> arg, run |-> 0]
    /\ pre' = [dw |-> dw, tx |-> tx]
    /\ log' = r.log
    /\ mid' = <<>>
    /\ err' = r.err
    /\ prev' = NoPrev
    /\ inst' = r.inst
    /\ io' = Io(table, excluded, <<>>, r.stmt)
    /\ UNCHANGED <<dw, tx, cat>>

\* the same, of an operation that touches neither connection nor tunnel
FinishBind(name, arg, table, excluded, r) ==
    /\ FinishInst(name, arg, table, excluded, r)
    /\ UNCHANGED net

Res(i, e, l, stmt) == [inst |-> i, err |-> e, log |-> l, stmt |-> stmt]

\* GerenciadorBancoDados(database, table, bd_type)
gerenciador_init(tag, table) ==
    IF tag \notin {"mysql", "postgres"}
    THEN Res(NoInst, Raise("TypeError"), <<>>, NoStmt)
    ELSE Res(Inst("GerenciadorBancoDados", table, <<>>, FALSE, FALSE, ModuleOf(tag)),
             NoErr, <<>>, NoStmt)

\* DataBaseEngine(database, environment, bd_type): self.host is set for the
\* three known environments only; any tag but 'postgres' takes pymysql
engine_init(tag, environment) ==
    IF environment \notin {"dev", "homo", "prod"}
    THEN Res(NoInst, Raise("AttributeError"), <<>>, NoStmt)
    ELSE Res(Inst("DataBaseEngine", Nulo, <<>>, FALSE, FALSE, ModuleOf(tag)),
             NoErr, <<>>, NoStmt)

\* local bind ports a tunnel may be given
Portas == 1..MaxPorta

\* __create_ssh_con: start() returns when sobe and raises otherwise; the
\* forwarder binds the local port it is given by the system
create_ssh_con(n, sobe, porta) ==
    IF ~sobe THEN n
    ELSE [n EXCEPT !.dupla = n.dupla \/ n.started, !.started = TRUE,
                   !.bind = porta, !.port = porta]

\* __create_conn: module.connect(**self.__db_config) returns when conexao
create_conn(n, conexao) ==
    IF ~conexao THEN n
    ELSE [n EXCEPT !.conn = TRUE, !.open = TRUE, !.peer = n.config,
                   !.tunel = IF n.started THEN n.bind ELSE Nulo]

\* the connection side of __init__, lines 43-73: the tunnel is started before
\* __db_config is filled from self.port
init_net(tag, ssh_tunneling, porta) ==
    LET n0 == [NoNet EXCEPT !.ssh = ssh_tunneling, !.port = PortaDe(tag)]
        n1 == IF ssh_tunneling THEN create_ssh_con(n0, TRUE, porta) ELSE n0
    IN  [n1 EXCEPT !.config = n1.port]

\* GerenciadorBancoDados(database, table, bd_type, ssh_tunneling=...): a
\* start() that raises at line 65 leaves no instance
gerenciador_ssh(tag, table, ssh_tunneling, sobe) ==
    IF tag \in {"mysql", "postgres"} /\ ssh_tunneling /\ ~sobe
    THEN Res(NoInst, Raise("BaseSSHTunnelForwarderError"), <<>>, NoStmt)
    ELSE gerenciador_init(tag, table)

Construir(opcoes) ==
    /\ op.name = "idle" /\ inst = NoInst
    /\ \E tag \in Tags, table \in 1..NumTab, ssh_tunneling \in opcoes,
          sobe \in BOOLEAN, porta \in Portas :
          LET r == gerenciador_ssh(tag, table, ssh_tunneling, sobe)
          IN  /\ FinishInst("GerenciadorBancoDados", tag, table, {}, r)
              /\ bd_type' = IF r.inst # NoInst THEN tag ELSE "-"
              /\ net' = IF r.inst # NoInst
                        THEN init_net(tag, ssh_tunneling, porta) ELSE NoNet

\* ssh_tunneling left at its default
NewGerenciador == Construir({FALSE})

\* DataBaseEngine.__init__ assigns no self.bd_type
NewEngine ==
    /\ op.name = "idle" /\ inst = NoInst
    /\ \E tag \in Tags, environment \in Ambientes :
          FinishBind("DataBaseEngine", tag, Nulo, {}, engine_init(tag, environment))
    /\ UNCHANGED bd_type

Columns == Entry("execute", "information_schema.columns", 0, <<>>, TRUE, 0)
ColumnsFailed == Entry("execute", "information_schema.columns", 0, <<>>, FALSE, 0)
KeyUsage == Entry("execute", "information_schema.key_column_usage", 0, <<>>, TRUE, 0)

\* __get_col_names on instance i, with log l so far; consulta tells whether
\* the introspection query returns.  Gives [inst, err, log, silent]: silent
\* when it ended at the return of line 136.
get_col_names(i, l, consulta) ==
    IF ~i.cur                       \* self.cur is None: AttributeError in the try
    THEN [inst |-> i, err |-> NoErr, log |-> l, silent |-> TRUE]
    ELSE IF ~consulta
    THEN [inst |-> i, err |-> NoErr, log |-> Append(l, ColumnsFailed), silent |-> TRUE]
    ELSE IF Len(cat[i.table].cols) = 0
    THEN [inst |-> i, err |-> Raise("Exception"), log |-> Append(l, Columns),
          silent |-> FALSE]
    ELSE [inst |-> [i EXCEPT !.col_names = cat[i.table].cols, !.tem_cols = TRUE],
          err |-> NoErr, log |-> Append(l, Columns), silent |-> FALSE]

\* connect(): everything it does is inside try/except Exception
connect(i, conexao, consulta) ==
    IF ~conexao
    THEN Res(i, NoErr, <<>>, NoStmt)               \* module.connect raised
    ELSE LET g == get_col_names([i EXCEPT !.cur = TRUE], <<Connect>>, consulta)
         IN  Res(g.inst, NoErr, g.log, NoStmt)     \* except Exception: print, log

\* the table setter; table_name 0 stands for the empty string
set_table(i, table_name, consulta) ==
    IF table_name = 0
    THEN Res(i, Raise("ValueError"), <<>>, NoStmt)
    ELSE LET g == get_col_names([i EXCEPT !.table = table_name], <<>>, consulta)
         IN  Res(g.inst, g.err, g.log, NoStmt)

\* insert_sql()
insert_sql(i) ==
    IF ~i.tem_cols
    THEN Res(i, Raise("TypeError"), <<>>, NoStmt)  \* ', '.join(None)
    ELSE Res(i, NoErr, <<>>,
             Stmt("insert", i.table, i.col_names, Len(i.col_names), Nulo, <<>>))

\* [col for col in self.col_names if col not in excluded_cols]
Sem(cols, excluded) == LET Test(c) == c \notin excluded IN SelectSeq(cols, Test)

\* upsert_sql(excluded_cols) of an instance of dialect tag; an empty
\* excluded stands for None and for []
upsert_sql(i, tag, excluded) ==
    IF ~i.tem_cols
    THEN Res(i, Raise("TypeError"), <<>>, NoStmt)  \* iterating, or len of, None
    ELSE LET update_cols == IF excluded # {} THEN Sem(i.col_names, excluded)
                            ELSE i.col_names
             key_col == IF tag = "postgres" THEN i.col_names[1] ELSE Nulo
         IN  Res(i, NoErr, <<>>,
                 Stmt("upsert", i.table, update_cols, Len(update_cols), key_col,
                      update_cols))

\* get_primary_key(): fetchone() of the key query, None on any exception
get_primary_key(i, consulta) ==
    IF ~i.cur \/ ~consulta
    THEN Res(i, NoErr, <<>>, NoStmt)
    ELSE Res(i, NoErr, <<KeyUsage>>,
             Stmt("pk", i.table, <<>>, Nulo, cat[i.table].pk, <<>>))

IsGerenciador == op.name = "idle" /\ inst.classe = "GerenciadorBancoDados"

\* the connection side of connect(), lines 172-174: a start() that raises
\* is caught before __create_conn is reached
connect_net(n, sobe, porta, conexao) ==
    LET t == IF n.ssh THEN create_ssh_con(n, sobe, porta) ELSE n
    IN  create_conn(t, conexao /\ (n.ssh => sobe))

ConnectCall ==
    /\ IsGerenciador
    /\ \E conexao, consulta, sobe \in BOOLEAN, porta \in Portas :
          /\ FinishInst("connect", "", inst.table, {},
                        connect(inst, conexao /\ (net.ssh => sobe), consulta))
          /\ net' = connect_net(net, sobe, porta, conexao)
    /\ UNCHANGED bd_type

SetTableCall ==
    /\ IsGerenciador
    /\ \E table_name \in 0..NumTab, consulta \in BOOLEAN :
          FinishBind("table", "", table_name, {}, set_table(inst, table_name, consulta))
    /\ UNCHANGED bd_type

InsertSqlCall ==
    /\ IsGerenciador
    /\ FinishBind("insert_sql", "", inst.table, {}, insert_sql(inst))
    /\ UNCHANGED bd_type

UpsertSqlCall ==
    /\ IsGerenciador
    /\ \E excluded \in SUBSET (1..NumCols) :
          FinishBind("upsert_sql", "", inst.table, excluded, upsert_sql(inst, bd_type, excluded))
    /\ UNCHANGED bd_type

PrimaryKeyCall ==
    /\ IsGerenciador
    /\ \E consulta \in BOOLEAN :
          FinishBind("get_primary_key", "", inst.table, {}, get_primary_key(inst, consulta))
    /\ UNCHANGED bd_type

\* the caller drops the instance
Drop ==
    /\ op.name = "idle" /\ inst # NoInst
    /\ inst' = NoInst
    /\ bd_type' = "-"
    /\ net' = NoNet
    /\ UNCHANGED <<dw, tx, op, pre, log, mid, err, prev, cat, io>>

NextBind ==
    \/ NewGerenciador \/ NewEngine \/ ConnectCall \/ SetTableCall
    \/ InsertSqlCall \/ UpsertSqlCall \/ PrimaryKeyCall \/ Return \/ Drop

SpecBind == InitBind /\ [][NextBind]_vars

----------------------------------------------------------------------------
(* The connection and the SSH tunnel of an instance *)

\* the connection side of dispose(), lines 184-189: cur.close() on None is an
\* AttributeError, caught; closing what is already closed returns when
\* fecha and raises otherwise; the tunnel is stopped after both closes
dispose_net(n, cur, fecha) ==
    IF ~cur \/ (~n.open /\ ~fecha) THEN n
    ELSE [n EXCEPT !.open = FALSE,
                   !.started = IF n.ssh THEN FALSE ELSE @,
                   !.bind = IF n.ssh THEN Nulo ELSE @]

\* dispose(): everything it does is inside try/except Exception
dispose(i, n, fecha) ==
    [inst |-> i, net |-> dispose_net(n, i.cur, fecha), err |-> NoErr,
     log |-> IF i.cur /\ (n.open \/ fecha) THEN <<Close>> ELSE <<>>,
     stmt |-> NoStmt, aviso |-> FALSE]

\* conection_test(): aviso when it took the branch of line 155
conection_test(i, n, sobe, porta, conexao, fecha) ==
    IF n.conn /\ i.cur
    THEN [inst |-> i, net |-> n, err |-> NoErr, log |-> <<>>, stmt |-> NoStmt,
          aviso |-> TRUE]
    ELSE LET ok == conexao /\ (n.ssh => sobe)
             t == connect_net(n, sobe, porta, conexao)
         IN  IF ~ok
             THEN [inst |-> i, net |-> t, err |-> NoErr, log |-> <<>>,
                   stmt |-> NoStmt, aviso |-> FALSE]
             ELSE LET d == dispose([i EXCEPT !.cur = TRUE], t, fecha)
                  IN  [d EXCEPT !.log = <<Connect>> \o d.log]

\* the instance is built with or without a tunnel
NewTunel == Construir(BOOLEAN)

TestCall ==
    /\ IsGerenciador
    /\ \E sobe, conexao, fecha \in BOOLEAN, porta \in Portas :
          LET r == conection_test(inst, net, sobe, porta, conexao, fecha)
          IN  /\ FinishInst("conection_test", IF r.aviso THEN "established" ELSE "",
                            inst.table, {}, r)
              /\ net' = r.net
    /\ UNCHANGED bd_type

DisposeCall ==
    /\ IsGerenciador
    /\ \E fecha \in BOOLEAN :
          LET r == dispose(inst, net, fecha)
          IN  /\ FinishInst("dispose", "", inst.table, {}, r)
              /\ net' = r.net
    /\ UNCHANGED bd_type

\* the catalog plays no part here
InitConn == InitBind /\ cat = CatPadrao

NextConn ==
    \/ NewTunel \/ ConnectCall \/ TestCall \/ DisposeCall \/ Return \/ Drop

SpecConn == InitConn /\ [][NextConn]_vars

----------------------------------------------------------------------------
(* select_hash called on its own, on a fact table filled by carga_scd_fato *)

\* as many fields as values, were the last one not added apart
NumFieldsPorValor(n) == n

\* the number of '{}' fields of where_flag (lines 360-361): "'{}'," repeated
\* a negative number of times is the empty string
NumFields(n) == Max(n - 1, 0) + 1

SelectEntry(keys) == Entry("execute", "SELECT", 0, keys, TRUE, 0)

\* select_hash(col_list, pk, values_list, ultimo_registro) on table content
\* t: where_flag.format(*values_list) raises IndexError when it has more
\* fields than values, and fills its fields from the first values otherwise
select_hash_call(t, values_list, ultimo_registro) ==
    LET fields == NumFields(Len(values_list))
    IN  IF fields > Len(values_list)
        THEN [err |-> Raise("IndexError"), log |-> <<>>, rows |-> {}]
        ELSE LET where_values == SubSeq(values_list, 1, fields)
             IN  [err |-> NoErr, log |-> <<SelectEntry(where_values)>>,
                  rows |-> select_hash(t, Range(where_values), ultimo_registro)]

\* loads of one content per natural key at one date
LotesSimples == LotesDe(Keys, {1}, {1})

Listas == SeqsUpTo({ScdHash(k, 1) : k \in Keys}, MaxLista)

CargaSimples ==
    /\ op.name = "idle"
    /\ \E df \in LotesSimples :
          Finish("carga_scd_fato", df, "", 0, scd_fato(dw, tx, df, NoFalha, NoFalha))

SelectHashCall ==
    /\ op.name = "idle"
    /\ \E values_list \in Listas, ultimo_registro \in BOOLEAN :
          LET r == select_hash_call(tx, values_list, ultimo_registro)
          IN  /\ op' = [name |-> "select_hash", df |-> <<>>,
                        arg |-> IF ultimo_registro THEN "ultimo_registro" ELSE "",
                        run |-> 0]
              /\ pre' = [dw |-> dw, tx |-> tx]
              /\ log' = r.log
              /\ mid' = <<>>
              /\ err' = r.err
              /\ prev' = NoPrev
              /\ io' = [NoIo EXCEPT !.hashes = values_list, !.rows = r.rows]
              /\ UNCHANGED <<bd_type, dw, tx, inst, cat, net>>

NextSelect == CargaSimples \/ SelectHashCall \/ Return

SpecSelect == Init /\ [][NextSelect]_vars

----------------------------------------------------------------------------
(* GerenciadorBancoDados.surrogated_hash *)

\* str(n) of a natural number, as its sequence of decimal digits
RECURSIVE Str(_)
Str(n) == IF n < 10 THEN <<n>> ELSE Str(n \div 10) \o <<n % 10>>

\* sep.join(parts)
RECURSIVE Join(_, _)
Join(sep, parts) ==
    IF Len(parts) = 0 THEN <<>>
    ELSE IF Len(parts) = 1 THEN parts[1]
    ELSE parts[1] \o sep \o Join(sep, Tail(parts))

\* hashlib.sha384(message.encode()).hexdigest(): the digest is a function of
\* the message, and two messages are taken to have two digests
sha384(message) == [sha384 |-> message]

\* the separator of line 217 is the empty string; a separator that no str()
\* of a number contains
Vazio == <<>>
Barra == <<0 - 1>>

\* the text of a row with a separator between its values
RowTextSeparado(row, columns) ==
    Join(Barra, [k \in 1..Len(columns) |-> Str(row[columns[k]])])

\* ''.join(map(str, row.values)) of the row restricted to columns
row_text(row, columns) ==
    Join(Vazio, [k \in 1..Len(columns) |-> Str(row[columns[k]])])

\* surrogated_hash(df, columns): lista tells whether columns is a list of str
surrogated_hash(df, columns, lista) ==
    IF ~lista
    THEN [err |-> Raise("ValueError"), digests |-> <<>>]
    ELSE [err |-> NoErr,
          digests |-> [i \in 1..Len(df) |-> sha384(row_text(df[i], columns))]]

\* frames of two columns whose cells are numbers such as 1 and 11
Valores == {d * u : d \in 1..MaxDigito, u \in {1, 11}}
Linhas == [{"a", "b"} -> Valores]
Frames == SeqsUpTo(Linhas, MaxLinhas)
ListasDeColunas == {<<"a">>, <<"b">>, <<"a", "b">>, <<"b", "a">>}

HashCall ==
    /\ op.name = "idle"
    /\ \E df \in Frames, columns \in ListasDeColunas, lista \in BOOLEAN :
          LET r == surrogated_hash(df, columns, lista)
          IN  /\ op' = [name |-> "surrogated_hash", df |-> df,
                        arg |-> IF lista THEN "list" ELSE "tuple", run |-> 0]
              /\ err' = r.err
              /\ io' = [NoIo EXCEPT !.columns = columns, !.digests = r.digests]
    /\ pre' = [dw |-> dw, tx |-> tx]
    /\ log' = <<>>
    /\ mid' = <<>>
    /\ prev' = NoPrev
    /\ UNCHANGED <<bd_type, dw, tx, inst, cat, net>>

NextHash == HashCall \/ Return

SpecHash == Init /\ [][NextHash]_vars

----------------------------------------------------------------------------
(* Both loaders, each on an instance bound to a table of its kind *)

\* the bound table is a fact table (rows with a natural key), or a dimension
\* table (rows with a movement date); an empty table can be either
TabelaFato == {r \in dw \cup tx : "nk" \notin DOMAIN r} = {}
TabelaDim == {r \in dw \cup tx : "dt_movimento" \notin DOMAIN r} = {}

PassosFato ==
    /\ op.name = "idle" /\ TabelaFato
    /\ \E df \in LotesSimples : carga_scd_fato(df, 0)

PassosGrande == TabelaFato /\ GrandeCall

PassosDim == TabelaDim /\ DimCall

NextPassos == PassosFato \/ PassosGrande \/ PassosDim \/ Return

SpecPassos == Init /\ [][NextPassos]_vars

----------------------------------------------------------------------------
(* Reading the log of a call *)

Writes(l, sql) ==
    LET Test(e) == e.call = "executemany" /\ e.sql = sql IN SelectSeq(l, Test)

AllWrites(l) == LET Test(e) == e.call = "executemany" IN SelectSeq(l, Test)

Commits(l) == LET Test(e) == e.call = "commit" IN SelectSeq(l, Test)

Correntes(t, k) == {r \in t : r.nk = k /\ r.ultimo_registro}

UmCorrentePorChave(t) ==
    \A k \in {r.nk : r \in t} : Cardinality(Correntes(t, k)) = 1

IsFato == op.name = "carga_scd_fato"

----------------------------------------------------------------------------
(* Claims about the Fact SCD Merge Engine *)

\* C1: in a fact table written only by carga_scd_fato, every natural key in
\* the table has exactly one current row in every committed state, after a
\* merge and between its close pass and its insert pass.
C1_UmCorrente ==
    /\ UmCorrentePorChave(dw)
    /\ \A i \in 1..Len(mid) : UmCorrentePorChave(mid[i])

\* C2: a second run with the same candidates after a successful first run
\* makes no write and leaves the warehouse as it was.
C2_RerunSemEscrita ==
    (IsFato /\ op.run >= 1 /\ prev.err = NoErr)
        => (AllWrites(log) = <<>> /\ dw = pre.dw)

\* the case of C3: one candidate K/H2, the warehouse holds K/H1 as the
\* current version of K, and the merge returned
C3_Caso(r) ==
    /\ IsFato /\ err = NoErr /\ Len(op.df) = 1
    /\ r \in pre.tx
    /\ r.nk = op.df[1].nk /\ r.ultimo_registro /\ r.pk # op.df[1].scdhash
    /\ Correntes(pre.tx, r.nk) = {r}

\* C3: a candidate K/H2 against a current K/H1 gives exactly one close-write
\* and one insert-write: H1 ends not current with dt_fim_movimento the
\* reference date, H2 is inserted current with an open period.
C3_FechaEInsere ==
    \A r \in pre.tx :
        C3_Caso(r) =>
            /\ Len(Writes(log, "upsert")) = 1
            /\ Writes(log, "upsert")[1].keys = <<r.pk>>
            /\ Len(Writes(log, "insert")) = 1
            /\ Writes(log, "insert")[1].keys = <<op.df[1].scdhash>>
            /\ [r EXCEPT !.ultimo_registro = FALSE,
                         !.dt_fim_movimento = op.df[1].DataMovimento] \in dw
            /\ r \notin dw
            /\ LinhaFato(op.df[1]) \in dw

\* C4: the insert pass writes exactly the candidates classified New.
C4_InsereSoNovos ==
    IsFato =>
        \A i \in 1..Len(Writes(log, "insert")) :
            Writes(log, "insert")[i].keys =
                KeysOf(ToFato(df_novos_registros(op.df,
                                  select_hash(pre.tx, Hashes(op.df), TRUE))))

Perms(df) ==
    {p \in [1..Len(df) -> Range(df)] :
        \A i, j \in 1..Len(df) : p[i] = p[j] => i = j}

KeysWritten(l, sql) ==
    UNION {Range(Writes(l, sql)[i].keys) : i \in 1..Len(Writes(l, sql))}

\* C5: which rows are closed and which candidates are inserted does not
\* depend on the position of a candidate in the batch: what the merge wrote
\* is what it classifies for every permutation of the batch.
C5_OrdemNaoImporta ==
    (IsFato /\ err = NoErr) =>
        \A p \in Perms(op.df) :
            /\ KeysWritten(log, "upsert") = ClosedSet(pre.tx, p)
            /\ KeysWritten(log, "insert") = InsertedSet(pre.tx, p)

----------------------------------------------------------------------------
(* Claims about the Dimension Loader *)

IsDim == op.name = "carga_dimensao"

\* C6: a second run of carga_dimensao with the same candidates and the same
\* reference date after a successful first run makes no insert and no
\* refresh-upsert, also when the first run refreshed stale rows.
C6_RerunDimSemEscrita ==
    (IsDim /\ op.run >= 1 /\ prev.err = NoErr) => AllWrites(log) = <<>>

\* the case of C7: the load returned, and row r, fetched for candidate c, was
\* older than the threshold at the reference date
C7_Caso(r, c) ==
    /\ IsDim /\ err = NoErr
    /\ r \in pre.tx /\ r.pk = c.dhash
    /\ op.df[1].DataMovimento - r.dt_movimento >= LimiteDias

\* C7: a stale row whose hash matches a candidate is re-upserted in place with
\* the candidate's attribute values and a new movement date: after the load
\* the table has exactly one row of that hash, and it is no longer stale.
C7_RefrescaAntigos ==
    \A r \in pre.tx : \A i \in 1..Len(op.df) :
        C7_Caso(r, op.df[i]) =>
            /\ Cardinality({x \in dw : x.pk = r.pk}) = 1
            /\ \A x \in dw :
                  x.pk = r.pk =>
                      /\ op.df[1].DataMovimento - x.dt_movimento < LimiteDias
                      /\ \E j \in 1..Len(op.df) :
                            op.df[j].dhash = x.pk /\ op.df[j].ultima = x.ultima

\* the candidates of the load whose hash is the pk of no warehouse row
AntiJoin ==
    LET Test(c) == c.dhash \notin {r.pk : r \in pre.tx} IN SelectSeq(op.df, Test)

----------------------------------------------------------------------------
(* Claims about the Batch Writer *)

IsLote ==
    op.name \in {"batch_insert", "script.batch_insert", "DataBaseEngine.batch_insert"}

\* the executemany calls of the log that returned, and those that raised
Done(l) == LET Test(e) == e.call = "executemany" /\ e.ok IN SelectSeq(l, Test)
Failed(l) == LET Test(e) == e.call = "executemany" /\ ~e.ok IN SelectSeq(l, Test)

\* every chunk that was executed is in the open transaction, none is committed
Pending ==
    /\ dw = pre.dw
    /\ \A i \in 1..Len(Done(log)) : Range(Done(log)[i].keys) \subseteq {r.pk : r \in tx}

C10_FalhaDeChunk ==
    (IsLote /\ Failed(log) # <<>>) =>
        /\ Len(Failed(log)) = 1
        /\ log[Len(log)] = Failed(log)[1]
        /\ err.offset = Failed(log)[1].start
        /\ Commits(log) = <<>>
        /\ op.name = "batch_insert" => Pending

\* the chunk size the record set of the call is cut with, as C11 states it:
\* max(N/100, 1) when the caller gives none
DefaultChunk(n) == Max(n \div EngineDivisor, 1)

\* C11: a call whose driver raises nothing cuts its N rows into consecutive
\* chunks of the chunk size (max(N/100, 1) by default), the last one alone
\* possibly shorter, executes every row once in input order, and reports
\* after each chunk the number of rows executed so far, N after the last.
C11_Particiona ==
    (IsLote /\ Failed(log) = <<>>) =>
        LET n == Len(op.df)
            c == DefaultChunk(n)
            done == Done(log)
        IN  /\ err = NoErr
            /\ Len(done) = NumChunks(n, c)
            /\ \A j \in 1..Len(done) :
                  /\ done[j].start = (j - 1) * c
                  /\ done[j].keys = KeysOf(Tuples(op.df, (j - 1) * c, c))
                  /\ done[j].pbar = Min(j * c, n)

----------------------------------------------------------------------------
(* Claims about binding and the Statement Builder *)

Built(name) == op.name = name /\ err = NoErr

\* C12: the update clause of the statement upsert_sql returns holds exactly
\* the catalog columns that are neither the primary key nor excluded by the
\* caller; it never holds the primary-key column.
C12_UpdateSemChave ==
    Built("upsert_sql") =>
        Range(io.stmt.update) =
            Range(inst.col_names) \ ({cat[inst.table].pk} \cup io.excluded)

\* C13: every statement of insert_sql and of upsert_sql, whatever the
\* excluded columns, lists every catalog column in catalog order in its
\* INSERT column list and has one placeholder per catalog column.
C13_InsertListaTudo ==
    (Built("insert_sql") \/ Built("upsert_sql")) =>
        /\ io.stmt.cols = inst.col_names
        /\ io.stmt.nvalues = Len(inst.col_names)

\* C14: after any sequence of connect() calls and rebinds, failed or not,
\* the cached column list is the column list of the table the instance
\* names, and no statement pairs a table with another table's columns.
C14_ColunasDaTabela ==
    /\ inst.tem_cols => inst.col_names = cat[inst.table].cols
    /\ (Built("insert_sql") \/ Built("upsert_sql")) =>
           Range(io.stmt.cols) \subseteq Range(cat[io.stmt.table].cols)

\* the binding of the call found no column, or its query raised
SemColunas ==
    \/ ColumnsFailed \in Range(log)
    \/ Columns \in Range(log) /\ cat[inst.table].cols = <<>>

\* C15: a binding whose introspection query fails or returns no column
\* raises to the caller, through connect() and through the table setter.
C15_BindSemColunasFalha ==
    (op.name \in {"connect", "table"} /\ SemColunas) => err # NoErr

\* C16: a constructor called with a dialect tag other than 'mysql' and
\* 'postgres' raises and leaves no instance.
C16_TagInvalidaFalha ==
    (op.name \in {"GerenciadorBancoDados", "DataBaseEngine"}
        /\ op.arg \notin {"mysql", "postgres"}) =>
            (err # NoErr /\ inst = NoInst)

\* C19: upsert_sql returns a statement only for a table that has a primary
\* key, and the conflict target of the statement is that key.
C19_ChaveResolvida ==
    Built("upsert_sql") =>
        /\ cat[inst.table].pk # Nulo
        /\ io.stmt.conflict # Nulo => io.stmt.conflict = cat[inst.table].pk

----------------------------------------------------------------------------
(* Claims about select_hash *)

Selects(l) == LET Test(e) == e.call = "execute" /\ e.sql = "SELECT" IN SelectSeq(l, Test)

\* C18: select_hash called with an empty list of key values raises before
\* any query is sent; a query it sends has the whole, non-empty list of
\* values in its IN clause.
C18_ListaVaziaFalha ==
    op.name = "select_hash" =>
        /\ io.hashes = <<>> => (err # NoErr /\ log = <<>>)
        /\ \A j \in 1..Len(Selects(log)) :
               Selects(log)[j].keys # <<>> /\ Selects(log)[j].keys = io.hashes

\* select_hash was called with an empty list on a table that has rows
C18_Witness ==
    /\ op.name = "select_hash" /\ io.hashes = <<>>
    /\ err.exc = "IndexError"
    /\ tx # {}

----------------------------------------------------------------------------
(* Claims about surrogated_hash *)

\* the string forms of the identity-column values of row i of the call, in
\* the given column order
Formas(i) == [k \in 1..Len(io.columns) |-> Str(op.df[i][io.columns[k]])]

\* their concatenation with no separator
RECURSIVE Concat(_)
Concat(parts) == IF parts = <<>> THEN <<>> ELSE Head(parts) \o Concat(Tail(parts))

\* C20: surrogated_hash returns one digest per row in input order; rows with
\* equal identity-column values get equal digests, and so do rows whose
\* values differ but concatenate to the same string: the digest of a row is
\* the digest of that concatenation.
C20_DigestDaConcatenacao ==
    (op.name = "surrogated_hash" /\ err = NoErr) =>
        /\ Len(io.digests) = Len(op.df)
        /\ \A i \in 1..Len(op.df) : io.digests[i] = sha384(Concat(Formas(i)))
        /\ \A i, j \in 1..Len(op.df) :
               Concat(Formas(i)) = Concat(Formas(j)) => io.digests[i] = io.digests[j]

\* a frame with two rows of different identity values and one digest
C20_Witness ==
    /\ op.name = "surrogated_hash" /\ err = NoErr
    /\ \E i, j \in 1..Len(op.df) :
          /\ Formas(i) # Formas(j)
          /\ io.digests[i] = io.digests[j]

----------------------------------------------------------------------------
(* Claims about re-running an interrupted merge *)

\* the run before this one was interrupted by a write failure, and this one
\* is the same merge run again
Retomada ==
    /\ op.name \in {"carga_scd_fato", "carga_dimensao"}
    /\ op.run >= 1
    /\ prev.err.exc = "OperationalError"

\* the merge of the call, run from the state the interrupted run started in,
\* with no failure of the driver
SemInterrupcao ==
    IF op.name = "carga_scd_fato"
    THEN scd_fato(prev.dw, prev.tx, op.df, NoFalha, NoFalha)
    ELSE dimensao(prev.dw, prev.tx, op.df, op.arg, NoFalha, NoFalha)

\* C17: when a merge interrupted by a write failure is run again with the
\* same candidates and ends without a failure of the driver, the warehouse
\* is in the state one uninterrupted run from the original state leaves.
C17_RetomadaIgual ==
    (Retomada /\ err.exc # "OperationalError") => dw = SemInterrupcao.dw

----------------------------------------------------------------------------
(* Claims about the Batch Writer and an empty record set *)

\* C24: GerenciadorBancoDados.batch_insert called with an empty record set
\* returns without raising and executes no batch operation.
C24_VazioRetorna ==
    (op.name = "batch_insert" /\ Len(op.df) = 0) =>
        (err = NoErr /\ AllWrites(log) = <<>>)

----------------------------------------------------------------------------
(* Claims about the passes of the loaders *)

\* the batch operations and commits of the call, in order
Passos == LET Test(e) == e.call \in {"executemany", "commit"} IN SelectSeq(log, Test)

\* the pk of the rows the first pass of the call has to write, and whether
\* its second pass has rows, from the table as the call found it
RowsPasso1 ==
    IF IsFato THEN ClosedSet(pre.tx, op.df)
    ELSE {r.pk : r \in df_registros_antigos(op.df, select_hash(pre.tx, DHashes(op.df), FALSE))}

TemPasso2 ==
    IF IsFato
    THEN LET pks == {r.pk : r \in select_hash(pre.tx, Hashes(op.df), TRUE)}
         IN  Hashes(op.df) \ pks # {}
    ELSE AntiJoin # <<>>

\* the writes of statement sql in the call all returned, and there are some
PassoFeito(sql) ==
    /\ Writes(log, sql) # <<>>
    /\ \A j \in 1..Len(Writes(log, sql)) : Writes(log, sql)[j].ok

\* C21: in carga_dimensao and carga_scd_fato a commit comes right after the
\* last batch operation of a pass that wrote its rows, once per pass; the
\* refresh/close pass is committed before the insert pass begins; a pass
\* with no rows writes and commits nothing; nothing follows a batch
\* operation that raised.
C21_PassoECommit ==
    (IsFato \/ IsDim) =>
        /\ \A i \in 1..Len(Passos) :
              Passos[i].call = "commit" =>
                  i > 1 /\ Passos[i - 1].call = "executemany" /\ Passos[i - 1].ok
        /\ \A i \in 1..Len(Passos) :
              (Passos[i].call = "executemany" /\ ~Passos[i].ok) => i = Len(Passos)
        /\ \A i, j \in 1..Len(Passos) :
              (i < j /\ Passos[i].call = "executemany"
                     /\ Passos[j].call = "executemany"
                     /\ Passos[i].sql # Passos[j].sql) =>
                  /\ Passos[i].sql = "upsert"
                  /\ \E k \in (i + 1)..(j - 1) : Passos[k].call = "commit"
        /\ Len(Commits(log)) =
              (IF PassoFeito("upsert") THEN 1 ELSE 0) + (IF PassoFeito("insert") THEN 1 ELSE 0)
        /\ RowsPasso1 = {} => Writes(log, "upsert") = <<>>
        /\ ~TemPasso2 => Writes(log, "insert") = <<>>
        /\ err = NoErr =>
              /\ RowsPasso1 # {} => PassoFeito("upsert")
              /\ TemPasso2 => PassoFeito("insert")

\* a load that returned after a refresh pass and an insert pass
C21_Witness ==
    /\ IsDim /\ err = NoErr
    /\ PassoFeito("upsert") /\ PassoFeito("insert")
    /\ Len(Commits(log)) = 2

\* C22: on an instance built with ssh_tunneling, after any calls of
\* connect(), conection_test() and dispose(), start() was never called on a
\* tunnel that was up, and the last connection was opened against the local
\* bind port the tunnel had at that moment
C22_TunelDaVez ==
    (inst.classe = "GerenciadorBancoDados" /\ net.ssh) =>
        /\ ~net.dupla
        /\ net.peer # Nulo => net.peer = net.tunel

\* C23: self.conn and self.cur are set exactly when the connection is open,
\* and conection_test() reports an established connection only when one is
\* open
C23_ConnSeAberta ==
    inst.classe = "GerenciadorBancoDados" =>
        /\ (net.conn /\ inst.cur) <=> net.open
        /\ (op.name = "conection_test" /\ op.arg = "established") => net.open

====
